---------------------------- MODULE Spec2Model ----------------------------
(***************************************************************************)
(* Model of the /download handler of src/main.py (download_video): cookie  *)
(* resolution, probe, materialize, locate, the streamed response body and  *)
(* the cleanup of the temporary files.                                     *)
(*                                                                         *)
(* Every string of the program is a sequence of tokens: a path is the      *)
(* sequence of its components, a file's contents the sequence of its       *)
(* chunks.  None and the empty string, which the code tests alike with     *)
(* `if x:`, are the empty sequence.                                        *)
(***************************************************************************)
EXTENDS Naturals, Sequences, FiniteSets

VARIABLES
    env,              \* os.environ, fixed when the process starts
    world,            \* what the clients, the disk and the remote sites can do
    files,            \* the file system: path -> contents
    pc,               \* per request: the position of its handler
    uid,              \* per request: uuid.uuid4().hex[:10]
    cookies,          \* per request: the `cookies` query parameter
    ydl_opts,         \* per request: the options handed to yt-dlp
    tmp_cookie_path,  \* per request: the local of that name
    tasks,            \* per request: background_tasks (paths to _safe_remove)
    info,             \* per request: the probe's result
    actual_file_path, \* per request: the local of that name
    status,           \* per request: the HTTP status answered (0: none yet)
    filename,         \* per request: the local of that name (title_safe.extension)
    disposition,      \* per request: the Content-Disposition header of the response
    gen,              \* per request: state of the async_iterfile generator
    fh,               \* per request: contents of the file opened by the generator
    body,             \* per request: the chunks sent to the caller
    ending,           \* per request: how the transfer ended
    probed,           \* history: outcome of the probe call
    probe_opts,       \* history: the options the probe call was given
    mat,              \* history: outcome of the materialize call
    mat_opts,         \* history: the options the materialize call was given
    wrote,            \* history: per request, the cookie files it wrote completely
    created,          \* history: per request, the temporary files it created
    write_failed,     \* history: per request, whether a cookie write raised
    unlinks           \* history: per request, the paths it called os.unlink on

vars == << env, world, files, pc, uid, cookies, ydl_opts, tmp_cookie_path, tasks, info,
           actual_file_path, status, gen, fh, body, ending, probed, probe_opts,
           mat, mat_opts, wrote, created, write_failed, unlinks, filename,
           disposition >>

-----------------------------------------------------------------------------
(* Bounds of the model *)

\* length of the identifier (10 in the code), over the alphabet Hex
UidLen == 2
\* number of chunks of a materialized media file
MediaChunks == 2

\* the requests: two, so that any pair of them can be handled concurrently
R == {1, 2}
Hex == {"a", "b"}

-----------------------------------------------------------------------------
(* Strings, paths and the file system *)

None == << >>

\* `if x:` on an Optional[str]
Truthy(x) == x # None

\* a faulty str.startswith that compares the first character only
StartsWithFirstChar(name, prefix) ==
    /\ Len(name) >= 1
    /\ Len(prefix) >= 1
    /\ name[1] = prefix[1]

\* str.startswith
StartsWith(name, prefix) ==
    /\ Len(name) >= Len(prefix)
    /\ SubSeq(name, 1, Len(prefix)) = prefix

\* tempfile.gettempdir()
temp_dir == << "/tmp" >>

\* os.path.join(temp_dir, name)
Join(dir, name) == dir \o name

\* os.path.exists
Exists(fs, path) == path \in DOMAIN fs

\* os.listdir(temp_dir)
ListDir(fs) ==
    { SubSeq(p, 2, Len(p)) : p \in { q \in DOMAIN fs : StartsWith(q, temp_dir) } }

\* open(path, "w") followed by a complete write
WriteFile(fs, path, data) ==
    [ p \in (DOMAIN fs) \cup {path} |-> IF p = path THEN data ELSE fs[p] ]

\* os.unlink of an existing path
Unlink(fs, path) == [ p \in (DOMAIN fs) \ {path} |-> fs[p] ]

\* the identifiers uuid4().hex[:10] can return
UIDs == [ 1..UidLen -> Hex ]

\* f"{uid}.cookies.txt"
CookieName(u) == u \o << ".cookies", ".txt" >>

\* f"{uid}.env.cookies.txt"
EnvCookieName(u) == u \o << ".env", ".cookies", ".txt" >>

\* the file yt-dlp writes for the template f"{uid}.%(ext)s"
OutputName(u) == u \o << ".mp4" >>

\* the partial file yt-dlp leaves behind when a download is interrupted
PartName(u) == u \o << ".mp4", ".part" >>

\* contents of a media file
MediaData == [ i \in 1..MediaChunks |-> "media" ]

\* contents of an interrupted download
PartData == << "media" >>


-----------------------------------------------------------------------------
(* The process environment and the inputs of a request *)

\* a cookie file the operator installed, and one a client may name
EnvFilePath == << "/etc", "yt-cookies.txt" >>
ClientFilePath == << "/srv", "client-cookies.txt" >>

\* the files that exist beside the temporary directory when the process starts
ServerFiles ==
    [ p \in {EnvFilePath, ClientFilePath} |->
        IF p = EnvFilePath THEN << "sid=envfile" >> ELSE << "sid=clientfile" >> ]

\* values of YT_COOKIE_FILE_PATH: unset, an existing file, a missing file
EnvCookieFiles == { None, EnvFilePath, << "/etc", "missing.txt" >> }
\* values of YT_COOKIE_STRING_B64: unset, the base64 of "sid=b64", a blob that
\* decodes to bytes that are not UTF-8
EnvB64 == { None, << "c2lkPWI2NA==" >>, << "/w==" >> }
\* values of YT_COOKIE_STRING
EnvRaw == { None, << "sid=envraw" >> }
\* values of YT_COOKIES_FROM_BROWSER
EnvBrowser == { None, << "chrome" >> }

Envs ==
    [ cookie_file : EnvCookieFiles, b64 : EnvB64, raw : EnvRaw, browser : EnvBrowser,
      yt_proxy : { None, << "proxy-yt" >> },
      http_proxy : { None, << "proxy-http" >> },
      https_proxy : { None, << "proxy-https" >> } ]

\* values of the `cookies` query parameter: absent, an existing server path,
\* raw cookie text
CookieArgs == { None, ClientFilePath, << "sid=client" >> }

\* base64.b64decode(blob).decode('utf-8'): ok is FALSE when it raises
B64Decode(blob) ==
    IF blob = << "c2lkPWI2NA==" >>
    THEN [ ok |-> TRUE, text |-> << "sid=b64" >> ]
    ELSE [ ok |-> FALSE, text |-> None ]

\* what can happen to `with open(path, "w") as cf: cf.write(text)`
WriteOutcomes == { "ok", "open_fails", "write_fails" }

-----------------------------------------------------------------------------
(* Credential resolution *)

\* the try block that writes cookie text to a transient file, registers it in
\* the options and for removal after the response; on an exception the local
\* tmp_cookie_path is reset and nothing is registered.  A write that raises
\* after open succeeded leaves the (truncated) file on disk.
Written(fs, path, text, w) ==
    CASE w = "ok" ->
           [ files |-> WriteFile(fs, path, text), cookiefile |-> path,
             tmp |-> path, task |-> path, failed |-> FALSE, wrote |-> path ]
      [] w = "open_fails" ->
           [ files |-> fs, cookiefile |-> None,
             tmp |-> None, task |-> None, failed |-> TRUE, wrote |-> None ]
      [] w = "write_fails" ->
           [ files |-> WriteFile(fs, path, None), cookiefile |-> None,
             tmp |-> None, task |-> None, failed |-> TRUE, wrote |-> None ]

\* nothing written: the branch only sets (or leaves unset) the cookiefile option
NotWritten(fs, cookiefile, tcp) ==
    [ files |-> fs, cookiefile |-> cookiefile,
      tmp |-> tcp, task |-> None, failed |-> FALSE, wrote |-> None ]

\* a faulty handling of the parameter without the `if cookies:` guard
ExplicitCookiesUnguarded(fs, u, c, tcp, w) ==
    IF Exists(fs, c)
    THEN NotWritten(fs, c, tcp)
    ELSE Written(fs, Join(temp_dir, CookieName(u)), c, w)

\* `if cookies:` ... the explicit parameter
ExplicitCookies(fs, u, c, tcp, w) ==
    IF Truthy(c)
    THEN IF Exists(fs, c)
         THEN NotWritten(fs, c, tcp)
         ELSE Written(fs, Join(temp_dir, CookieName(u)), c, w)
    ELSE NotWritten(fs, None, tcp)

\* a faulty environment chain that tries the raw string before the base64 blob
EnvCookiesRawFirst(fs, e, u, tcp, w) ==
    LET path == Join(temp_dir, EnvCookieName(u))
        decoded == IF B64Decode(e.b64).ok THEN B64Decode(e.b64).text ELSE e.b64
    IN  IF Truthy(e.cookie_file) /\ Exists(fs, e.cookie_file)
        THEN NotWritten(fs, e.cookie_file, tcp)
        ELSE IF Truthy(e.raw)
        THEN Written(fs, path, e.raw, w)
        ELSE IF Truthy(e.b64)
        THEN Written(fs, path, decoded, w)
        ELSE NotWritten(fs, None, tcp)

\* `if 'cookiefile' not in ydl_opts:` ... the if / elif / elif chain over
\* YT_COOKIE_FILE_PATH, YT_COOKIE_STRING_B64, YT_COOKIE_STRING
EnvCookies(fs, e, u, tcp, w) ==
    LET path == Join(temp_dir, EnvCookieName(u))
        decoded == IF B64Decode(e.b64).ok THEN B64Decode(e.b64).text ELSE e.b64
    IN  IF Truthy(e.cookie_file) /\ Exists(fs, e.cookie_file)
        THEN NotWritten(fs, e.cookie_file, tcp)
        ELSE IF Truthy(e.b64)
        THEN Written(fs, path, decoded, w)
        ELSE IF Truthy(e.raw)
        THEN Written(fs, path, e.raw, w)
        ELSE NotWritten(fs, None, tcp)

\* a faulty browser directive set without looking at the cookiefile option
CookiesFromBrowserUnguarded(cookiefile, e) == e.browser

\* `if 'cookiefile' not in ydl_opts and cookies_from_browser:` (twice in the code,
\* with the same effect)
CookiesFromBrowser(cookiefile, e) ==
    IF cookiefile = None /\ Truthy(e.browser) THEN e.browser ELSE None

\* a faulty selection that looks at HTTP_PROXY before YT_PROXY
ProxyHttpFirst(e) ==
    IF Truthy(e.http_proxy) THEN e.http_proxy
    ELSE IF Truthy(e.yt_proxy) THEN e.yt_proxy
    ELSE e.https_proxy

\* os.getenv('YT_PROXY') or os.getenv('HTTP_PROXY') or os.getenv('HTTPS_PROXY')
Proxy(e) ==
    IF Truthy(e.yt_proxy) THEN e.yt_proxy
    ELSE IF Truthy(e.http_proxy) THEN e.http_proxy
    ELSE e.https_proxy

\* history of the cookie files a request wrote completely
Wrote(old, res) == IF res.wrote = None THEN old ELSE old \cup {res.wrote}

\* background_tasks.add_task(_safe_remove, path)
AddTask(old, res) == IF res.task = None THEN old ELSE Append(old, res.task)

-----------------------------------------------------------------------------
(* The external fetch capability (yt-dlp) *)

NoInfo == [ present |-> FALSE, title |-> None, ext |-> None ]

\* what ydl.extract_info(url, download=False) can do: raise, return nothing,
\* return metadata (title "Clip", ext "mp4", as code points)
ProbeOutcomes ==
    { [ raised |-> TRUE, info |-> NoInfo ],
      [ raised |-> FALSE, info |-> NoInfo ],
      [ raised |-> FALSE,
        info |-> [ present |-> TRUE, title |-> << 67, 108, 105, 112 >>,
                   ext |-> << 109, 112, 52 >> ] ] }

\* the longest title of the metadata the naming specification draws
MaxTitleLen == 2

\* the characters of those titles: "/", "\", "A", "_", e-acute (Latin-1),
\* the euro sign and fullwidth A (outside Latin-1)
TitleChars == { 47, 92, 65, 95, 233, 8364, 65313 }

\* info.get("title"): absent or empty, or a title
Titles == UNION { [ 1..n -> TitleChars ] : n \in 0..MaxTitleLen }

\* info.get("ext"): absent, or "webm"
Exts == { None, << 119, 101, 98, 109 >> }

\* what ydl.extract_info can do when the metadata varies: raise, or return
\* metadata with any of the titles and extensions
NamingProbeOutcomes ==
    { [ raised |-> TRUE, info |-> NoInfo ] }
    \cup { [ raised |-> FALSE, info |-> [ present |-> TRUE, title |-> t, ext |-> e ] ] :
             t \in Titles, e \in Exts }

\* the outcomes of ydl.extract_info among the sites of a world: sites with
\* fixed metadata, sites that refuse the probe, sites with varied metadata
ProbesOf(sites) ==
    CASE sites = "fixed" -> ProbeOutcomes
      [] sites = "refusing" -> { o \in ProbeOutcomes : o.raised }
      [] sites = "varied" -> NamingProbeOutcomes

\* what ydl.download([url]) can do: return after writing the output file (or
\* without one), raise DownloadError or raise another exception, in both cases
\* with or without a partial file left behind
MatOutcomes ==
    { [ result |-> "ok", file |-> "full" ],
      [ result |-> "ok", file |-> "none" ],
      [ result |-> "DownloadError", file |-> "none" ],
      [ result |-> "DownloadError", file |-> "part" ],
      [ result |-> "Exception", file |-> "none" ],
      [ result |-> "Exception", file |-> "part" ] }

\* no call of ydl.download yet
NoFetch == [ result |-> "none", file |-> "none" ]

\* the files of the temporary directory after ydl.download([url])
Downloaded(fs, u, o) ==
    CASE o.file = "full" -> WriteFile(fs, Join(temp_dir, OutputName(u)), MediaData)
      [] o.file = "part" -> WriteFile(fs, Join(temp_dir, PartName(u)), PartData)
      [] o.file = "none" -> fs

-----------------------------------------------------------------------------
(* Cleanup helpers and exception handlers *)

\* _safe_remove(path)
SafeRemove(fs, path) ==
    IF Truthy(path) /\ Exists(fs, path) THEN Unlink(fs, path) ELSE fs

\* the os.unlink calls _safe_remove(path) makes
SafeRemoveCalls(fs, path) ==
    IF Truthy(path) /\ Exists(fs, path) THEN << path >> ELSE << >>

\* the background tasks of a response, run in order
RECURSIVE RunTasks(_, _)
RunTasks(fs, ts) ==
    IF ts = << >> THEN fs ELSE RunTasks(SafeRemove(fs, Head(ts)), Tail(ts))

RECURSIVE RunTasksCalls(_, _)
RunTasksCalls(fs, ts) ==
    IF ts = << >> THEN << >>
    ELSE SafeRemoveCalls(fs, Head(ts)) \o RunTasksCalls(SafeRemove(fs, Head(ts)), Tail(ts))

\* `except Exception`: removes the transient cookie file, then answers 500
OnException(fs, tcp) == SafeRemove(fs, tcp)

\* `except yt_dlp.utils.DownloadError`: answers 502 and removes nothing.  The
\* HTTPException replaces the response, so the background tasks added to the
\* injected BackgroundTasks are never run.
OnDownloadError(fs, tcp) == fs

\* a faulty classification that answers 502 for every exception of the
\* materialize call
StatusAlways502(result) == 502

\* the status the except clauses answer for an exception of the materialize call
StatusOfFailure(result) == IF result = "DownloadError" THEN 502 ELSE 500

\* the finally block of async_iterfile: os.unlink(actual_file_path), errors swallowed
Finally(fs, path) == IF Exists(fs, path) THEN Unlink(fs, path) ELSE fs

\* the names the scan `for fname in os.listdir(temp_dir): if fname.startswith(uid)`
\* can stop at: os.listdir returns the entries in arbitrary order
Candidates(fs, u) == { n \in ListDir(fs) : StartsWith(n, u) }

-----------------------------------------------------------------------------
(* The delivery name and the Content-Disposition header.  A title, an        *)
(* extension and a header value are sequences of code points.                *)

\* the characters of a token of a file name
CodePoints(tok) ==
    CASE tok = "a" -> << 97 >>
      [] tok = "b" -> << 98 >>
      [] tok = ".mp4" -> << 46, 109, 112, 52 >>
      [] tok = ".part" -> << 46, 112, 97, 114, 116 >>
      [] tok = ".txt" -> << 46, 116, 120, 116 >>
      [] tok = ".cookies" -> << 46, 99, 111, 111, 107, 105, 101, 115 >>
      [] tok = ".env" -> << 46, 101, 110, 118 >>

\* the characters of a file name
RECURSIVE Text(_)
Text(name) == IF name = << >> THEN << >> ELSE CodePoints(Head(name)) \o Text(Tail(name))

\* os.path.basename of a path of the temporary directory
Basename(path) == Text(SubSeq(path, 2, Len(path)))

\* os.path.splitext: the extension starts at the last dot, unless only dots
\* precede it
SplitExt(s) ==
    LET dots == { i \in 1..Len(s) : s[i] = 46 /\ \E j \in 1..(i - 1) : s[j] # 46 }
    IN  IF dots = {}
        THEN [ root |-> s, ext |-> << >> ]
        ELSE LET k == CHOOSE i \in dots : \A j \in dots : j <= i
             IN  [ root |-> SubSeq(s, 1, k - 1), ext |-> SubSeq(s, k, Len(s)) ]

\* str.lstrip(".")
RECURSIVE LStripDots(_)
LStripDots(s) == IF s # << >> /\ Head(s) = 46 THEN LStripDots(Tail(s)) ELSE s

\* title.replace("/", "-").replace("\\", "-")
Sanitize(title) ==
    [ i \in 1..Len(title) |-> IF title[i] \in { 47, 92 } THEN 45 ELSE title[i] ]

\* f"video_{uid}"
VideoName(u) == << 118, 105, 100, 101, 111, 95 >> \o Text(u)

\* a faulty reconciliation that takes the extension from the probe only when it
\* took the title from the probe
DeliveryNameCoupled(inf, path, u) ==
    LET base == Basename(path)
        fromInfo == inf.present /\ inf.title # None
        title == IF fromInfo THEN inf.title
                 ELSE IF SplitExt(base).root # << >> THEN SplitExt(base).root
                 ELSE VideoName(u)
        extension == IF fromInfo /\ inf.ext # None THEN inf.ext
                     ELSE IF LStripDots(SplitExt(base).ext) # << >>
                     THEN LStripDots(SplitExt(base).ext)
                     ELSE << 109, 112, 52 >>
    IN  Sanitize(title) \o << 46 >> \o extension

\* the filename for Content-Disposition: title and extension from info, with
\* their fallbacks, the title sanitized
DeliveryName(inf, path, u) ==
    LET base == Basename(path)
        t0 == IF inf.present THEN inf.title ELSE None
        e0 == IF inf.present THEN inf.ext ELSE None
        title == IF t0 # None THEN t0
                 ELSE IF SplitExt(base).root # << >> THEN SplitExt(base).root
                 ELSE VideoName(u)
        extension == IF e0 # None THEN e0
                     ELSE IF LStripDots(SplitExt(base).ext) # << >>
                     THEN LStripDots(SplitExt(base).ext)
                     ELSE << 109, 112, 52 >>
    IN  Sanitize(title) \o << 46 >> \o extension

\* unicodedata.normalize("NFKD", c) of one character: e-acute decomposes into e
\* and a combining accent, fullwidth A into A; the other characters of the
\* model are their own decomposition
NFKD(c) ==
    CASE c = 233 -> << 101, 769 >>
      [] c = 65313 -> << 65 >>
      [] OTHER -> << c >>

RECURSIVE Normalize(_)
Normalize(s) == IF s = << >> THEN << >> ELSE NFKD(Head(s)) \o Normalize(Tail(s))

\* s.split("_"): the parts between underscores
RECURSIVE SplitUnderscore(_, _)
SplitUnderscore(s, part) ==
    IF s = << >> THEN << part >>
    ELSE IF Head(s) = 95 THEN << part >> \o SplitUnderscore(Tail(s), << >>)
    ELSE SplitUnderscore(Tail(s), Append(part, Head(s)))

\* "_".join(filter(None, parts))
RECURSIVE JoinUnderscore(_)
JoinUnderscore(parts) ==
    IF parts = << >> THEN << >>
    ELSE IF Head(parts) = << >> THEN JoinUnderscore(Tail(parts))
    ELSE LET rest == JoinUnderscore(Tail(parts))
         IN  IF rest = << >> THEN Head(parts) ELSE Head(parts) \o << 95 >> \o rest

\* max_length of ascii_fallback_filename
MaxLength == 200

\* a faulty fallback that keeps the normalized characters as they are
AsciiFallbackKeepsAll(name) ==
    LET normalized == Normalize(name)
        collapsed == JoinUnderscore(SplitUnderscore(normalized, << >>))
        nonempty == IF collapsed = << >> THEN << 118, 105, 100, 101, 111 >> ELSE collapsed
    IN  IF Len(nonempty) > MaxLength THEN SubSeq(nonempty, 1, MaxLength) ELSE nonempty

\* ascii_fallback_filename
ascii_fallback_filename(name) ==
    LET normalized == Normalize(name)
        ascii_only == [ i \in 1..Len(normalized) |->
                          IF normalized[i] < 128 THEN normalized[i] ELSE 95 ]
        collapsed == JoinUnderscore(SplitUnderscore(ascii_only, << >>))
        nonempty == IF collapsed = << >> THEN << 118, 105, 100, 101, 111 >> ELSE collapsed
    IN  IF Len(nonempty) > MaxLength THEN SubSeq(nonempty, 1, MaxLength) ELSE nonempty

\* str.encode("utf-8") of one character
Utf8(c) ==
    IF c < 128 THEN << c >>
    ELSE IF c < 2048 THEN << 192 + (c \div 64), 128 + (c % 64) >>
    ELSE IF c < 65536
    THEN << 224 + (c \div 4096), 128 + ((c \div 64) % 64), 128 + (c % 64) >>
    ELSE << 240 + (c \div 262144), 128 + ((c \div 4096) % 64),
            128 + ((c \div 64) % 64), 128 + (c % 64) >>

\* the characters urllib.parse.quote never encodes: letters, digits, "_.-~"
Unreserved(b) ==
    \/ b \in 65..90
    \/ b \in 97..122
    \/ b \in 48..57
    \/ b \in { 95, 46, 45, 126 }

\* an upper-case hexadecimal digit
HexDigit(n) == IF n < 10 THEN 48 + n ELSE 55 + n

\* quote of one byte with safe=""
QuoteByte(b) ==
    IF Unreserved(b) THEN << b >> ELSE << 37, HexDigit(b \div 16), HexDigit(b % 16) >>

RECURSIVE QuoteBytes(_)
QuoteBytes(bs) == IF bs = << >> THEN << >> ELSE QuoteByte(Head(bs)) \o QuoteBytes(Tail(bs))

\* urllib.parse.quote(s, safe="")
RECURSIVE Quote(_)
Quote(s) == IF s = << >> THEN << >> ELSE QuoteBytes(Utf8(Head(s))) \o Quote(Tail(s))

\* str.encode("latin-1") succeeds
Latin1(s) == \A i \in 1..Len(s) : s[i] < 256

\* no Content-Disposition header built yet
NoHeader == [ filename |-> << >>, extended |-> FALSE, filename_star |-> << >> ]

\* content_disposition_header: attachment; filename="<filename>" and, when the
\* name is not Latin-1, ; filename*=UTF-8''<filename_star>
content_disposition_header(name) ==
    IF Latin1(name)
    THEN [ filename |-> name, extended |-> FALSE, filename_star |-> << >> ]
    ELSE [ filename |-> ascii_fallback_filename(name), extended |-> TRUE,
           filename_star |-> Quote(name) ]

-----------------------------------------------------------------------------
(* Initial states *)

NoOpts == [ outtmpl |-> None, cookiefile |-> None, cookiesfrombrowser |-> None,
            proxy |-> None ]

\* the state after the process has started with environment e; the requests of
\* `arriving` will be received, the others never are
InitWith(E, W, arriving) ==
    /\ env \in E
    /\ world = W
    /\ files = ServerFiles
    /\ pc = [ r \in R |-> IF r \in arriving THEN "idle" ELSE "off" ]
    /\ uid = [ r \in R |-> None ]
    /\ cookies = [ r \in R |-> None ]
    /\ ydl_opts = [ r \in R |-> NoOpts ]
    /\ tmp_cookie_path = [ r \in R |-> None ]
    /\ tasks = [ r \in R |-> << >> ]
    /\ info = [ r \in R |-> NoInfo ]
    /\ actual_file_path = [ r \in R |-> None ]
    /\ status = [ r \in R |-> 0 ]
    /\ filename = [ r \in R |-> << >> ]
    /\ disposition = [ r \in R |-> NoHeader ]
    /\ gen = [ r \in R |-> "none" ]
    /\ fh = [ r \in R |-> None ]
    /\ body = [ r \in R |-> << >> ]
    /\ ending = [ r \in R |-> "none" ]
    /\ probed = [ r \in R |-> "none" ]
    /\ probe_opts = [ r \in R |-> NoOpts ]
    /\ mat = [ r \in R |-> NoFetch ]
    /\ mat_opts = [ r \in R |-> NoOpts ]
    /\ wrote = [ r \in R |-> {} ]
    /\ created = [ r \in R |-> {} ]
    /\ write_failed = [ r \in R |-> FALSE ]
    /\ unlinks = [ r \in R |-> << >> ]

\* every parameter value, every outcome of a write, of the probe and of the
\* materialize call
AnyWorld ==
    [ args |-> CookieArgs, writes |-> WriteOutcomes, probes |-> "fixed",
      fetches |-> MatOutcomes ]

\* one request, every environment, every outcome
Init == InitWith(Envs, AnyWorld, {1})

\* the environments with YT_COOKIE_STRING set and nothing else: a request
\* without a cookie parameter writes <uid>.env.cookies.txt, one with raw cookie
\* text writes <uid>.cookies.txt
ConcEnvs ==
    { e \in Envs : /\ e.raw # None
                   /\ e.cookie_file = None /\ e.b64 = None /\ e.browser = None
                   /\ e.yt_proxy = None /\ e.http_proxy = None /\ e.https_proxy = None }

\* clients that send raw cookie text or none, a disk on which writes succeed,
\* sites that refuse the probe, and every outcome of the materialize call that
\* leaves a file
ConcWorld ==
    [ args |-> { None, << "sid=client" >> },
      writes |-> { "ok" },
      probes |-> "refusing",
      fetches |-> { o \in MatOutcomes : o.file # "none" } ]

\* two requests handled concurrently
InitConc == InitWith(ConcEnvs, ConcWorld, R)

\* the environments with no cookie setting and no proxy
NamingEnvs ==
    { e \in Envs : /\ e.cookie_file = None /\ e.b64 = None /\ e.raw = None
                   /\ e.browser = None
                   /\ e.yt_proxy = None /\ e.http_proxy = None /\ e.https_proxy = None }

\* clients that send raw cookie text or none, a disk on which writes succeed,
\* sites with any metadata, and a materialize call that returns
NamingWorld ==
    [ args |-> { None, << "sid=client" >> },
      writes |-> { "ok" },
      probes |-> "varied",
      fetches |-> { o \in MatOutcomes : o.result = "ok" } ]

\* one request, for the delivery name and its header
InitNaming == InitWith(NamingEnvs, NamingWorld, {1})

-----------------------------------------------------------------------------
(* The handler of GET /download, step by step *)

\* the request arrives: uid, output_template and the basic ydl_opts
Start(r) ==
    /\ pc[r] = "idle"
    /\ \E u \in UIDs, c \in world.args :
         /\ uid' = [ uid EXCEPT ![r] = u ]
         /\ cookies' = [ cookies EXCEPT ![r] = c ]
         /\ ydl_opts' = [ ydl_opts EXCEPT ![r] =
                [ NoOpts EXCEPT !.outtmpl = Join(temp_dir, u \o << ".%(ext)s" >>) ] ]
    /\ pc' = [ pc EXCEPT ![r] = "explicit" ]
    /\ UNCHANGED << filename, disposition >>
    /\ UNCHANGED << env, world, files, tmp_cookie_path, tasks, info, actual_file_path, status,
                    gen, fh, body, ending, probed, probe_opts, mat, mat_opts, wrote,
                    created, write_failed, unlinks >>

\* `if cookies:` the explicit cookie parameter
ResolveExplicit(r) ==
    /\ pc[r] = "explicit"
    /\ \E w \in world.writes :
         LET res == ExplicitCookies(files, uid[r], cookies[r], tmp_cookie_path[r], w)
         IN  /\ files' = res.files
             /\ ydl_opts' = [ ydl_opts EXCEPT ![r].cookiefile = res.cookiefile ]
             /\ tmp_cookie_path' = [ tmp_cookie_path EXCEPT ![r] = res.tmp ]
             /\ tasks' = [ tasks EXCEPT ![r] = AddTask(@, res) ]
             /\ wrote' = [ wrote EXCEPT ![r] = Wrote(@, res) ]
             /\ created' = [ created EXCEPT ![r] =
                    @ \cup ((DOMAIN res.files) \ (DOMAIN files)) ]
             /\ write_failed' = [ write_failed EXCEPT ![r] = @ \/ res.failed ]
    /\ pc' = [ pc EXCEPT ![r] = "env" ]
    /\ UNCHANGED << filename, disposition >>
    /\ UNCHANGED << env, world, uid, cookies, info, actual_file_path, status, gen, fh, body,
                    ending, probed, probe_opts, mat, mat_opts, unlinks >>

\* `if 'cookiefile' not in ydl_opts:` the environment cookies, then the browser
\* profile and the proxy
ResolveEnv(r) ==
    /\ pc[r] = "env"
    /\ \E w \in world.writes :
         LET res == IF ydl_opts[r].cookiefile = None
                    THEN EnvCookies(files, env, uid[r], tmp_cookie_path[r], w)
                    ELSE NotWritten(files, ydl_opts[r].cookiefile, tmp_cookie_path[r])
         IN  /\ files' = res.files
             /\ ydl_opts' = [ ydl_opts EXCEPT
                    ![r].cookiefile = res.cookiefile,
                    ![r].cookiesfrombrowser = CookiesFromBrowser(res.cookiefile, env),
                    ![r].proxy = Proxy(env) ]
             /\ tmp_cookie_path' = [ tmp_cookie_path EXCEPT ![r] = res.tmp ]
             /\ tasks' = [ tasks EXCEPT ![r] = AddTask(@, res) ]
             /\ wrote' = [ wrote EXCEPT ![r] = Wrote(@, res) ]
             /\ created' = [ created EXCEPT ![r] =
                    @ \cup ((DOMAIN res.files) \ (DOMAIN files)) ]
             /\ write_failed' = [ write_failed EXCEPT ![r] = @ \/ res.failed ]
    /\ pc' = [ pc EXCEPT ![r] = "probe" ]
    /\ UNCHANGED << filename, disposition >>
    /\ UNCHANGED << env, world, uid, cookies, info, actual_file_path, status, gen, fh, body,
                    ending, probed, probe_opts, mat, mat_opts, unlinks >>

\* a faulty probe whose exception is not swallowed but answered 500
ProbeNotSwallowed(r) ==
    /\ pc[r] = "probe"
    /\ \E o \in ProbesOf(world.probes) :
         /\ info' = [ info EXCEPT ![r] = o.info ]
         /\ probed' = [ probed EXCEPT ![r] =
                IF o.raised THEN "raised" ELSE IF o.info.present THEN "info" ELSE "empty" ]
         /\ pc' = [ pc EXCEPT ![r] = IF o.raised THEN "done" ELSE "materialize" ]
         /\ status' = [ status EXCEPT ![r] = IF o.raised THEN 500 ELSE @ ]
         /\ files' = IF o.raised THEN OnException(files, tmp_cookie_path[r]) ELSE files
         /\ unlinks' = [ unlinks EXCEPT ![r] =
                IF o.raised THEN @ \o SafeRemoveCalls(files, tmp_cookie_path[r]) ELSE @ ]
    /\ probe_opts' = [ probe_opts EXCEPT ![r] = ydl_opts[r] ]
    /\ UNCHANGED << filename, disposition >>
    /\ UNCHANGED << env, world, uid, cookies, ydl_opts, tmp_cookie_path, tasks,
                    actual_file_path, gen, fh, body, ending, mat, mat_opts, wrote,
                    created, write_failed >>

\* a faulty probe whose except clause removes the transient cookie file
\* before the download
ProbeCleansUp(r) ==
    /\ pc[r] = "probe"
    /\ \E o \in ProbesOf(world.probes) :
         /\ info' = [ info EXCEPT ![r] = o.info ]
         /\ probed' = [ probed EXCEPT ![r] =
                IF o.raised THEN "raised" ELSE IF o.info.present THEN "info" ELSE "empty" ]
         /\ files' = IF o.raised THEN SafeRemove(files, tmp_cookie_path[r]) ELSE files
    /\ probe_opts' = [ probe_opts EXCEPT ![r] = ydl_opts[r] ]
    /\ pc' = [ pc EXCEPT ![r] = "materialize" ]
    /\ UNCHANGED << filename, disposition >>
    /\ UNCHANGED << env, world, uid, cookies, ydl_opts, tmp_cookie_path, tasks,
                    actual_file_path, status, gen, fh, body, ending, mat, mat_opts,
                    wrote, created, write_failed, unlinks >>

\* the metadata probe: extract_info(url, download=False) with a copy of ydl_opts,
\* every exception swallowed
Probe(r) ==
    /\ pc[r] = "probe"
    /\ \E o \in ProbesOf(world.probes) :
         /\ info' = [ info EXCEPT ![r] = o.info ]
         /\ probed' = [ probed EXCEPT ![r] =
                IF o.raised THEN "raised" ELSE IF o.info.present THEN "info" ELSE "empty" ]
    /\ probe_opts' = [ probe_opts EXCEPT ![r] = ydl_opts[r] ]
    /\ pc' = [ pc EXCEPT ![r] = "materialize" ]
    /\ UNCHANGED << filename, disposition >>
    /\ UNCHANGED << env, world, files, uid, cookies, ydl_opts, tmp_cookie_path, tasks,
                    actual_file_path, status, gen, fh, body, ending, mat, mat_opts,
                    wrote, created, write_failed, unlinks >>

\* ydl.download([url]) and, when it raises, the except clause that answers
Materialize(r) ==
    /\ pc[r] = "materialize"
    /\ \E o \in world.fetches :
         LET fs == Downloaded(files, uid[r], o)
         IN  /\ mat' = [ mat EXCEPT ![r] = o ]
             /\ created' = [ created EXCEPT ![r] = @ \cup ((DOMAIN fs) \ (DOMAIN files)) ]
             /\ CASE o.result = "ok" ->
                       /\ files' = fs
                       /\ pc' = [ pc EXCEPT ![r] = "locate" ]
                       /\ UNCHANGED << status, unlinks >>
                  [] o.result = "DownloadError" ->
                       /\ files' = OnDownloadError(fs, tmp_cookie_path[r])
                       /\ status' = [ status EXCEPT ![r] = StatusOfFailure(o.result) ]
                       /\ pc' = [ pc EXCEPT ![r] = "done" ]
                       /\ UNCHANGED unlinks
                  [] o.result = "Exception" ->
                       /\ files' = OnException(fs, tmp_cookie_path[r])
                       /\ unlinks' = [ unlinks EXCEPT ![r] =
                              @ \o SafeRemoveCalls(fs, tmp_cookie_path[r]) ]
                       /\ status' = [ status EXCEPT ![r] = StatusOfFailure(o.result) ]
                       /\ pc' = [ pc EXCEPT ![r] = "done" ]
    /\ mat_opts' = [ mat_opts EXCEPT ![r] = ydl_opts[r] ]
    /\ UNCHANGED << filename, disposition >>
    /\ UNCHANGED << env, world, uid, cookies, ydl_opts, tmp_cookie_path, tasks, info,
                    actual_file_path, gen, fh, body, ending, probed, probe_opts, wrote,
                    write_failed >>

\* the scan for the output file found one: the filename and the header are
\* built and the StreamingResponse is returned
Locate(r) ==
    /\ pc[r] = "locate"
    /\ \E n \in Candidates(files, uid[r]) :
         LET name == DeliveryName(info[r], Join(temp_dir, n), uid[r])
         IN  /\ actual_file_path' = [ actual_file_path EXCEPT ![r] = Join(temp_dir, n) ]
             /\ filename' = [ filename EXCEPT ![r] = name ]
             /\ disposition' = [ disposition EXCEPT ![r] =
                    content_disposition_header(name) ]
    /\ status' = [ status EXCEPT ![r] = 200 ]
    /\ gen' = [ gen EXCEPT ![r] = "unstarted" ]
    /\ pc' = [ pc EXCEPT ![r] = "stream" ]
    /\ UNCHANGED << env, world, files, uid, cookies, ydl_opts, tmp_cookie_path, tasks, info,
                    fh, body, ending, probed, probe_opts, mat, mat_opts, wrote,
                    created, write_failed, unlinks >>

\* a faulty handler without the `if not actual_file_path` check: the response
\* is returned although the scan found nothing
LocateFailsUnchecked(r) ==
    /\ pc[r] = "locate"
    /\ Candidates(files, uid[r]) = {}
    /\ status' = [ status EXCEPT ![r] = 200 ]
    /\ gen' = [ gen EXCEPT ![r] = "unstarted" ]
    /\ pc' = [ pc EXCEPT ![r] = "stream" ]
    /\ UNCHANGED << filename, disposition, files, unlinks >>
    /\ UNCHANGED << env, world, uid, cookies, ydl_opts, tmp_cookie_path, tasks, info,
                    actual_file_path, fh, body, ending, probed, probe_opts, mat,
                    mat_opts, wrote, created, write_failed >>

\* the scan found nothing: HTTPException(500), caught by `except Exception`
LocateFails(r) ==
    /\ pc[r] = "locate"
    /\ Candidates(files, uid[r]) = {}
    /\ files' = OnException(files, tmp_cookie_path[r])
    /\ unlinks' = [ unlinks EXCEPT ![r] = @ \o SafeRemoveCalls(files, tmp_cookie_path[r]) ]
    /\ status' = [ status EXCEPT ![r] = 500 ]
    /\ pc' = [ pc EXCEPT ![r] = "done" ]
    /\ UNCHANGED << filename, disposition >>
    /\ UNCHANGED << env, world, uid, cookies, ydl_opts, tmp_cookie_path, tasks, info,
                    actual_file_path, gen, fh, body, ending, probed, probe_opts, mat,
                    mat_opts, wrote, created, write_failed >>

-----------------------------------------------------------------------------
(* The response body: the async generator async_iterfile *)

\* the contents the generator reads: those of the file at open() time
Reading(r) == IF gen[r] = "unstarted" THEN files[actual_file_path[r]] ELSE fh[r]

\* the generator can be resumed and open() has succeeded or will succeed
CanRead(r) ==
    \/ gen[r] = "open"
    \/ gen[r] = "unstarted" /\ Exists(files, actual_file_path[r])

\* the server asks for the next chunk and fh.read returns one, which is sent
StreamYield(r) ==
    /\ pc[r] = "stream"
    /\ CanRead(r)
    /\ Len(body[r]) < Len(Reading(r))
    /\ fh' = [ fh EXCEPT ![r] = Reading(r) ]
    /\ gen' = [ gen EXCEPT ![r] = "open" ]
    /\ body' = [ body EXCEPT ![r] = Append(@, Reading(r)[Len(@) + 1]) ]
    /\ UNCHANGED << filename, disposition >>
    /\ UNCHANGED << env, world, files, pc, uid, cookies, ydl_opts, tmp_cookie_path, tasks,
                    info, actual_file_path, status, ending, probed, probe_opts, mat,
                    mat_opts, wrote, created, write_failed, unlinks >>

\* fh.read returns b"": the loop breaks, the finally block unlinks the file and
\* the body is complete; the response then runs its background tasks
StreamFinish(r) ==
    /\ pc[r] = "stream"
    /\ CanRead(r)
    /\ Len(body[r]) = Len(Reading(r))
    /\ files' = Finally(files, actual_file_path[r])
    /\ unlinks' = [ unlinks EXCEPT ![r] = Append(@, actual_file_path[r]) ]
    /\ gen' = [ gen EXCEPT ![r] = "closed" ]
    /\ ending' = [ ending EXCEPT ![r] = "complete" ]
    /\ pc' = [ pc EXCEPT ![r] = "background" ]
    /\ UNCHANGED << filename, disposition >>
    /\ UNCHANGED << env, world, uid, cookies, ydl_opts, tmp_cookie_path, tasks, info,
                    actual_file_path, status, fh, body, probed, probe_opts, mat,
                    mat_opts, wrote, created, write_failed >>

\* open() or fh.read raises while the server asks for the next chunk: the finally
\* block runs, the exception ends the response and its background tasks are not run
StreamError(r) ==
    /\ pc[r] = "stream"
    /\ gen[r] \in { "unstarted", "open" }
    /\ files' = Finally(files, actual_file_path[r])
    /\ unlinks' = [ unlinks EXCEPT ![r] = Append(@, actual_file_path[r]) ]
    /\ gen' = [ gen EXCEPT ![r] = "closed" ]
    /\ ending' = [ ending EXCEPT ![r] = "error" ]
    /\ pc' = [ pc EXCEPT ![r] = "done" ]
    /\ UNCHANGED << filename, disposition >>
    /\ UNCHANGED << env, world, uid, cookies, ydl_opts, tmp_cookie_path, tasks, info,
                    actual_file_path, status, fh, body, probed, probe_opts, mat,
                    mat_opts, wrote, created, write_failed >>

\* the caller disconnects.  A generator suspended at its yield is closed and its
\* finally block runs; a generator that was never started has no frame in the try
\* block, and is dropped without running anything.  Whether the server still runs
\* the background tasks of a response whose caller left depends on the server.
Disconnect(r) ==
    /\ pc[r] = "stream"
    /\ \/ /\ gen[r] = "open"
          /\ files' = Finally(files, actual_file_path[r])
          /\ unlinks' = [ unlinks EXCEPT ![r] = Append(@, actual_file_path[r]) ]
          /\ gen' = [ gen EXCEPT ![r] = "closed" ]
       \/ /\ gen[r] = "unstarted"
          /\ gen' = [ gen EXCEPT ![r] = "dropped" ]
          /\ UNCHANGED << files, unlinks >>
    /\ ending' = [ ending EXCEPT ![r] = "disconnect" ]
    /\ \E runs \in BOOLEAN : pc' = [ pc EXCEPT ![r] = IF runs THEN "background" ELSE "done" ]
    /\ UNCHANGED << filename, disposition >>
    /\ UNCHANGED << env, world, uid, cookies, ydl_opts, tmp_cookie_path, tasks, info,
                    actual_file_path, status, fh, body, probed, probe_opts, mat,
                    mat_opts, wrote, created, write_failed >>

\* the background tasks of the response: _safe_remove of each registered path
Background(r) ==
    /\ pc[r] = "background"
    /\ files' = RunTasks(files, tasks[r])
    /\ unlinks' = [ unlinks EXCEPT ![r] = @ \o RunTasksCalls(files, tasks[r]) ]
    /\ pc' = [ pc EXCEPT ![r] = "done" ]
    /\ UNCHANGED << filename, disposition >>
    /\ UNCHANGED << env, world, uid, cookies, ydl_opts, tmp_cookie_path, tasks, info,
                    actual_file_path, status, gen, fh, body, ending, probed,
                    probe_opts, mat, mat_opts, wrote, created, write_failed >>

-----------------------------------------------------------------------------
(* Specifications *)

Next ==
    \E r \in R :
        \/ Start(r)
        \/ ResolveExplicit(r)
        \/ ResolveEnv(r)
        \/ Probe(r)
        \/ Materialize(r)
        \/ Locate(r)
        \/ LocateFails(r)
        \/ StreamYield(r)
        \/ StreamFinish(r)
        \/ StreamError(r)
        \/ Disconnect(r)
        \/ Background(r)

Spec == Init /\ [][Next]_vars

SpecConc == InitConc /\ [][Next]_vars

SpecNaming == InitNaming /\ [][Next]_vars

-----------------------------------------------------------------------------
(* Vocabulary of the claims *)

\* the path at which the materialize call writes the artifact of request r
ArtifactPath(r) == Join(temp_dir, OutputName(uid[r]))

\* the request has been answered and nothing of it is left to run
Ended(r) == pc[r] = "done"

\* the number of os.unlink calls request r made on path p
UnlinkCount(r, p) == Cardinality({ i \in 1..Len(unlinks[r]) : unlinks[r][i] = p })

\* the names in the temporary directory that start with the identifier of r
OwnNames(r) == { n \in ListDir(files) : StartsWith(n, uid[r]) }

-----------------------------------------------------------------------------
(* Claims *)

\* C1: a transient cookie file the request wrote no longer exists once the
\* request has ended, whether it was answered 200 and streamed to the end, 502
\* or 500.  The code violates it on the 502 path.
C1_CookieFileRemovedOnEveryExit ==
    \A r \in R :
        ( /\ Ended(r)
          /\ \/ status[r] \in { 500, 502 }
             \/ status[r] = 200 /\ ending[r] = "complete" )
        => \A p \in wrote[r] : ~Exists(files, p)

\* C2: the file a successful request locates, streams and deletes is the
\* artifact the materialize call wrote, never the cookie file the request wrote
\* itself; a body streamed to the end is the artifact's contents, and the
\* artifact is then gone.  The code violates it when os.listdir lists the cookie
\* file first.
C2_LocateResolvesArtifact ==
    \A r \in R :
        /\ status[r] = 200 =>
              /\ actual_file_path[r] = ArtifactPath(r)
              /\ actual_file_path[r] \notin wrote[r]
        /\ ending[r] = "complete" =>
              /\ body[r] = MediaData
              /\ ~Exists(files, ArtifactPath(r))

\* C3: once the body has been streamed to the end, the artifact the materialize
\* call wrote no longer exists and os.unlink was called on it exactly once.
\* The code violates it when the scan resolved another file (C2).
C3_ArtifactUnlinkedOnceWhenConsumed ==
    \A r \in R :
        ( ending[r] = "complete" /\ mat[r].file = "full" )
        => /\ ~Exists(files, ArtifactPath(r))
           /\ UnlinkCount(r, ArtifactPath(r)) = 1

\* C4: however the transfer of a returned StreamingResponse ends (completion,
\* an error while reading, a disconnect at any point), the located file has
\* been deleted.  The code violates it when the caller disconnects before the
\* generator was started.
C4_LocatedFileDeletedOnEveryEnding ==
    \A r \in R :
        ending[r] \in { "complete", "error", "disconnect" }
        => ~Exists(files, actual_file_path[r])

\* C5: when the materialize call failed, no file whose name starts with the
\* request's identifier is left once the request has been answered.  The code
\* removes neither a partial download nor, on the 502 path, the cookie file.
C5_NothingLeftAfterMaterializeFailure ==
    \A r \in R :
        ( Ended(r) /\ mat[r].result \in { "DownloadError", "Exception" } )
        => OwnNames(r) = {}

\* C6 as stated: a request is answered 502 exactly when its materialize call
\* failed, whatever the call raised.  The code answers 500 when the call raises
\* anything but DownloadError.
C6_Every_MaterializeFailure_502 ==
    \A r \in R :
        status[r] # 0
        => ( status[r] = 502 <=> mat[r].result \in { "DownloadError", "Exception" } )

\* C6 amended: a request is answered 502 exactly when its materialize call
\* raised DownloadError; when the call raised another exception the request is
\* answered 500.
C6_DownloadError_502 ==
    \A r \in R :
        status[r] # 0
        => /\ status[r] = 502 <=> mat[r].result = "DownloadError"
           /\ mat[r].result = "Exception" => status[r] = 500

\* C6 witness: a materialize call that raised DownloadError was answered 502
C6_Witness ==
    \E r \in R : mat[r].result = "DownloadError" /\ status[r] = 502 /\ Ended(r)

\* the status the code answers, as a function of the materialize call and of
\* the scan alone
StatusAfter(r) ==
    IF mat[r].result = "DownloadError" THEN 502
    ELSE IF mat[r].result = "Exception" THEN 500
    ELSE IF actual_file_path[r] = None THEN 500
    ELSE 200

\* C7: whatever the probe did (raised, returned nothing, returned metadata),
\* the materialize call is attempted next with the options the probe was given,
\* and the status answered depends on the materialize call and the scan only.
C7_ProbeNeverFailsTheRequest ==
    \A r \in R :
        probed[r] # "none"
        => /\ pc[r] = "materialize" \/ mat[r].result # "none"
           /\ pc[r] = "materialize" => status[r] = 0
           /\ mat[r].result # "none" => mat_opts[r] = probe_opts[r]
           /\ status[r] # 0 => status[r] = StatusAfter(r)

\* C7 witness: the probe raised and the request was answered 200 and streamed
\* to the end
C7_Witness ==
    \E r \in R :
        /\ probed[r] = "raised"
        /\ status[r] = 200
        /\ ending[r] = "complete"
        /\ Ended(r)

\* the cookie material of a set of options: whether a cookie file is named,
\* the text that file holds, and the browser directive
Material(o, fs) ==
    [ cookiefile |-> o.cookiefile # None,
      text |-> IF Exists(fs, o.cookiefile) THEN fs[o.cookiefile] ELSE None,
      browser |-> o.cookiesfrombrowser ]

\* the cookie material of the first matching step of the 7-step precedence
FirstMatch(c, e) ==
    IF c # None /\ Exists(ServerFiles, c)
    THEN [ cookiefile |-> TRUE, text |-> ServerFiles[c], browser |-> None ]
    ELSE IF c # None
    THEN [ cookiefile |-> TRUE, text |-> c, browser |-> None ]
    ELSE IF e.cookie_file # None /\ Exists(ServerFiles, e.cookie_file)
    THEN [ cookiefile |-> TRUE, text |-> ServerFiles[e.cookie_file], browser |-> None ]
    ELSE IF e.b64 # None
    THEN [ cookiefile |-> TRUE,
           text |-> IF e.b64 = << "c2lkPWI2NA==" >> THEN << "sid=b64" >> ELSE e.b64,
           browser |-> None ]
    ELSE IF e.raw # None
    THEN [ cookiefile |-> TRUE, text |-> e.raw, browser |-> None ]
    ELSE IF e.browser # None
    THEN [ cookiefile |-> FALSE, text |-> None, browser |-> e.browser ]
    ELSE [ cookiefile |-> FALSE, text |-> None, browser |-> None ]

\* C8: when no cookie write failed, the cookie material in the options handed
\* to the probe and to the materialize call is that of the first matching step
\* of the precedence: explicit path, explicit raw text, env file that exists,
\* env base64 blob, env raw text, env browser profile, none.
C8_CookiePrecedence ==
    \A r \in R :
        /\ ( pc[r] \in { "probe", "materialize" } /\ ~write_failed[r] )
           => Material(ydl_opts[r], files) = FirstMatch(cookies[r], env)
        /\ probed[r] # "none" => probe_opts[r] = ydl_opts[r]
        /\ mat[r].result # "none" => mat_opts[r] = ydl_opts[r]

\* C8 witness: raw cookie text was given while every environment source is
\* configured, and the materialize call is about to get a cookie file holding
\* that text
C8_Witness ==
    \E r \in R :
        /\ pc[r] = "materialize"
        /\ cookies[r] = << "sid=client" >>
        /\ env.cookie_file = EnvFilePath
        /\ env.b64 # None /\ env.raw # None /\ env.browser # None
        /\ ~write_failed[r]
        /\ ydl_opts[r].cookiefile = Join(temp_dir, CookieName(uid[r]))
        /\ files[ydl_opts[r].cookiefile] = << "sid=client" >>

\* C9: when writing the transient cookie file failed, the options handed to the
\* fetch capability hold no cookie material: no cookie file and no browser
\* directive.  The code falls through to the lower-precedence sources.
C9_WriteFailureMeansNoCookie ==
    \A r \in R :
        ( write_failed[r] /\ pc[r] \notin { "idle", "explicit", "env" } )
        => /\ ydl_opts[r].cookiefile = None
           /\ ydl_opts[r].cookiesfrombrowser = None

\* C10: two requests with distinct identifiers have distinct output templates
\* and cookie paths, create distinct files, never locate a file the other
\* created, and call os.unlink only on paths that carry their own identifier.
C10_RequestsDoNotCollide ==
    \A r \in R : \A q \in R \ {r} :
        ( uid[r] # None /\ uid[q] # None /\ uid[r] # uid[q] )
        => /\ ydl_opts[r].outtmpl # ydl_opts[q].outtmpl
           /\ tmp_cookie_path[r] # None => tmp_cookie_path[r] # tmp_cookie_path[q]
           /\ created[r] \cap created[q] = {}
           /\ actual_file_path[r] \notin created[q]
           /\ \A i \in 1..Len(unlinks[r]) :
                 /\ unlinks[r][i] \notin created[q]
                 /\ StartsWith(unlinks[r][i], Join(temp_dir, uid[r]))

\* C10 witness: two requests whose identifiers differ only in the last
\* character both wrote a cookie file, were streamed to the end and have run
\* their cleanup
C10_Witness ==
    /\ uid[1] # None /\ uid[2] # None
    /\ uid[1] # uid[2]
    /\ uid[1][1] = uid[2][1]
    /\ \A r \in R :
          /\ Ended(r)
          /\ ending[r] = "complete"
          /\ wrote[r] # {}
          /\ Len(unlinks[r]) = 2

\* C11: when the materialize call returned and no name in the temporary
\* directory starts with the request's identifier, the request's next step
\* answers 500 and ends it: no response is returned and no body is streamed.
C11_MissingArtifactIs500 ==
    [][ \A r \in R :
          ( /\ pc[r] = "locate"
            /\ mat[r].result = "ok"
            /\ OwnNames(r) = {}
            /\ pc'[r] # "locate" )
          => /\ status'[r] = 500
             /\ pc'[r] = "done"
             /\ gen'[r] = "none"
             /\ body'[r] = << >> ]_vars

\* C11 witness: a request whose materialize call returned without leaving any
\* file, and which created no file itself, was answered 500
C11_Witness ==
    \E r \in R :
        /\ Ended(r)
        /\ mat[r] = [ result |-> "ok", file |-> "none" ]
        /\ created[r] = {}
        /\ status[r] = 500
        /\ body[r] = << >>

\* what a client does with the filename* parameter: the value of a hexadecimal
\* digit, percent-decoding, and UTF-8 decoding
HexValue(d) == IF d \in 48..57 THEN d - 48 ELSE d - 55

RECURSIVE Unquote(_)
Unquote(s) ==
    IF s = << >> THEN << >>
    ELSE IF Head(s) = 37 /\ Len(s) >= 3
    THEN << 16 * HexValue(s[2]) + HexValue(s[3]) >> \o Unquote(SubSeq(s, 4, Len(s)))
    ELSE << Head(s) >> \o Unquote(Tail(s))

RECURSIVE Utf8Decode(_)
Utf8Decode(bs) ==
    IF bs = << >> THEN << >>
    ELSE LET b == Head(bs)
             n == IF b < 128 THEN 1 ELSE IF b < 224 THEN 2 ELSE IF b < 240 THEN 3 ELSE 4
             cont(i) == bs[i] % 64
             c == CASE n = 1 -> b
                    [] n = 2 -> (b % 32) * 64 + cont(2)
                    [] n = 3 -> (b % 16) * 4096 + cont(2) * 64 + cont(3)
                    [] n = 4 -> (b % 8) * 262144 + cont(2) * 4096 + cont(3) * 64 + cont(4)
         IN  IF Len(bs) < n THEN << 65533 >>
             ELSE << c >> \o Utf8Decode(SubSeq(bs, n + 1, Len(bs)))

AllAscii(s) == \A i \in 1..Len(s) : s[i] < 128

\* the header of a name carries both parameters: an ASCII-only fallback and a
\* filename* that decodes back to the name
BothParameters(d, name) ==
    /\ d.extended
    /\ d.filename # << >>
    /\ AllAscii(d.filename)
    /\ AllAscii(d.filename_star)
    /\ Utf8Decode(Unquote(d.filename_star)) = name

\* C12 as stated: the header of every delivered name with a code point >= 128
\* carries both an ASCII-only fallback and a filename* parameter that decodes
\* back to the name, names whose non-ASCII characters are all Latin-1 included.
C12_EveryNonAsciiNameExtended ==
    \A r \in R :
        ( /\ status[r] = 200
          /\ \E i \in 1..Len(filename[r]) : filename[r][i] >= 128 )
        => BothParameters(disposition[r], filename[r])

\* C12 amended: the header of every delivered name with a code point >= 256
\* (a name Latin-1 cannot encode) carries both an ASCII-only fallback and a
\* filename* parameter that decodes back to the name; the header of a name
\* whose code points are all below 256, e-acute included, carries the name
\* itself as its only parameter.
C12_NonLatin1NameExtended ==
    \A r \in R :
        status[r] = 200 =>
            IF \E i \in 1..Len(filename[r]) : filename[r][i] >= 256
            THEN BothParameters(disposition[r], filename[r])
            ELSE /\ ~disposition[r].extended
                 /\ disposition[r].filename = filename[r]
                 /\ disposition[r].filename_star = << >>

\* C12 witness: a delivered name with the euro sign and e-acute whose header
\* has the fallback "e_.webm" and the filename* value "%C3%A9%E2%82%AC.webm"
C12_Witness ==
    \E r \in R :
        /\ status[r] = 200
        /\ filename[r] = << 233, 8364, 46, 119, 101, 98, 109 >>
        /\ disposition[r].extended
        /\ disposition[r].filename = << 101, 95, 46, 119, 101, 98, 109 >>
        /\ disposition[r].filename_star =
               << 37, 67, 51, 37, 65, 57, 37, 69, 50, 37, 56, 50, 37, 65, 67,
                  46, 119, 101, 98, 109 >>

\* the title and the extension of the delivery name, as C14 describes them
ExpectedTitle(r) ==
    LET root == SplitExt(Basename(actual_file_path[r])).root
    IN  IF probed[r] = "info" /\ info[r].title # << >> THEN info[r].title
        ELSE IF root # << >> THEN root
        ELSE VideoName(uid[r])

ExpectedExtension(r) ==
    LET suffix == LStripDots(SplitExt(Basename(actual_file_path[r])).ext)
    IN  IF probed[r] = "info" /\ info[r].ext # << >> THEN info[r].ext
        ELSE IF suffix # << >> THEN suffix
        ELSE << 109, 112, 52 >>

\* C14: the delivered name is <title>.<extension>, the title being the
\* probe's non-empty title or else the located file's base name or else
\* video_<identifier>, the extension being the probe's or else the located
\* file's suffix or else mp4, each choice made without regard to the other,
\* and the title part holds no "/" and no "\": each is replaced by "-".
C14_DeliveryNameReconciled ==
    \A r \in R :
        status[r] = 200 =>
            LET t == ExpectedTitle(r)
                name == filename[r]
            IN  /\ Len(name) = Len(t) + 1 + Len(ExpectedExtension(r))
                /\ \A i \in 1..Len(t) :
                       /\ name[i] \notin { 47, 92 }
                       /\ name[i] = IF t[i] \in { 47, 92 } THEN 45 ELSE t[i]
                /\ name[Len(t) + 1] = 46
                /\ SubSeq(name, Len(t) + 2, Len(name)) = ExpectedExtension(r)

\* C14 witness: the probe supplied the extension "webm" and no title, the
\* located file is <uid>.mp4, and the delivered name is <uid>.webm
C14_Witness ==
    \E r \in R :
        /\ status[r] = 200
        /\ probed[r] = "info"
        /\ info[r].title = << >>
        /\ info[r].ext = << 119, 101, 98, 109 >>
        /\ actual_file_path[r] = Join(temp_dir, OutputName(uid[r]))
        /\ filename[r] = Text(uid[r]) \o << 46, 119, 101, 98, 109 >>

\* the request has built its options: resolution is over
Resolved(r) == pc[r] \notin { "off", "idle", "explicit", "env" }

\* no cookie-related field in a set of options
NoCookieField(o) == o.cookiefile = None /\ o.cookiesfrombrowser = None

\* the transient cookie paths of a request
CookiePaths(r) ==
    { Join(temp_dir, CookieName(uid[r])), Join(temp_dir, EnvCookieName(uid[r])) }

\* C13: without a cookie parameter and without YT_COOKIE_FILE_PATH,
\* YT_COOKIE_STRING_B64, YT_COOKIE_STRING and YT_COOKIES_FROM_BROWSER, the
\* options of the request, those the probe got and those the materialize call
\* got hold neither cookiefile nor cookiesfrombrowser, and the request created
\* and registered no transient cookie file.
C13_NoCookieSourceNoCookieField ==
    \A r \in R :
        ( /\ pc[r] \notin { "off", "idle" }
          /\ cookies[r] = None
          /\ env.cookie_file = None /\ env.b64 = None
          /\ env.raw = None /\ env.browser = None )
        => /\ NoCookieField(ydl_opts[r])
           /\ probed[r] # "none" => NoCookieField(probe_opts[r])
           /\ mat[r].result # "none" => NoCookieField(mat_opts[r])
           /\ tmp_cookie_path[r] = None
           /\ tasks[r] = << >>
           /\ wrote[r] = {}
           /\ created[r] \cap CookiePaths(r) = {}
           /\ \A p \in CookiePaths(r) : ~Exists(files, p)

\* C13 witness: a request without any cookie source was probed, downloaded
\* and answered 200 while a proxy was set
C13_Witness ==
    \E r \in R :
        /\ Ended(r)
        /\ status[r] = 200
        /\ cookies[r] = None
        /\ env.cookie_file = None /\ env.b64 = None
        /\ env.raw = None /\ env.browser = None
        /\ env.http_proxy # None
        /\ probed[r] = "info"
        /\ NoCookieField(probe_opts[r])
        /\ NoCookieField(mat_opts[r])

\* the first set value among YT_PROXY, HTTP_PROXY, HTTPS_PROXY; None when
\* none is set
FirstSetProxy(e) ==
    LET vals == << e.yt_proxy, e.http_proxy, e.https_proxy >>
        set == { i \in 1..3 : vals[i] # None }
    IN  IF set = {} THEN None ELSE vals[CHOOSE i \in set : \A j \in set : i <= j]

\* the environment without its proxy settings
StripProxy(e) ==
    [ e EXCEPT !.yt_proxy = None, !.http_proxy = None, !.https_proxy = None ]

\* the cookie fields resolution can give a request with identifier u and
\* parameter c in environment e, over the outcomes of the cookie writes
CookieFields(c, e, u) ==
    { LET a == ExplicitCookies(ServerFiles, u, c, None, w1)
          b == IF a.cookiefile = None THEN EnvCookies(a.files, e, u, a.tmp, w2)
               ELSE NotWritten(a.files, a.cookiefile, a.tmp)
      IN  << b.cookiefile, CookiesFromBrowser(b.cookiefile, e) >> :
      w1 \in WriteOutcomes, w2 \in WriteOutcomes }

\* C15: whatever the cookie parameter, the cookie settings and the outcomes of
\* the cookie writes, the proxy option is the first set value among YT_PROXY,
\* HTTP_PROXY, HTTPS_PROXY and is absent when none is set, in the options the
\* probe and the materialize call get too; and the cookie fields the request
\* goes to the probe and to the materialize call with are among those the same
\* request gets in the same environment without proxy settings.
C15_ProxyIndependentOfCookies ==
    \A r \in R :
        Resolved(r) =>
            /\ ydl_opts[r].proxy = FirstSetProxy(env)
            /\ probed[r] # "none" => probe_opts[r].proxy = FirstSetProxy(env)
            /\ mat[r].result # "none" => mat_opts[r].proxy = FirstSetProxy(env)
            /\ pc[r] \in { "probe", "materialize" } =>
                   << ydl_opts[r].cookiefile, ydl_opts[r].cookiesfrombrowser >>
                       \in CookieFields(cookies[r], StripProxy(env), uid[r])

\* C15 witness: HTTP_PROXY and HTTPS_PROXY are set and YT_PROXY is not, the
\* request wrote the cookie file of the base64 blob, and the materialize call
\* got the HTTP_PROXY value
C15_Witness ==
    \E r \in R :
        /\ mat[r].result # "none"
        /\ env.yt_proxy = None
        /\ env.http_proxy # None /\ env.https_proxy # None
        /\ mat_opts[r].proxy = env.http_proxy
        /\ mat_opts[r].cookiefile = Join(temp_dir, EnvCookieName(uid[r]))
        /\ mat_opts[r].cookiefile \in wrote[r]

\* C16: the options of a request, those the probe got and those the
\* materialize call got never hold both cookiefile and cookiesfrombrowser.
C16_AtMostOneCookieMaterial ==
    \A r \in R :
        \A o \in { ydl_opts[r], probe_opts[r], mat_opts[r] } :
            ~( o.cookiefile # None /\ o.cookiesfrombrowser # None )

\* C16 witness: YT_COOKIES_FROM_BROWSER is set and the materialize call got a
\* cookie file and no browser directive
C16_Witness ==
    \E r \in R :
        /\ mat[r].result # "none"
        /\ env.browser # None
        /\ mat_opts[r].cookiefile # None
        /\ mat_opts[r].cookiesfrombrowser = None

\* C17: while a request is before its probe, between probe and materialize
\* call, or in the materialize call, the transient cookie file it wrote and
\* registered in its options exists with its contents, and the request has
\* called os.unlink on nothing.
C17_CookieFileKeptUntilMaterializeEnds ==
    \A r \in R :
        ( /\ pc[r] \in { "probe", "materialize" }
          /\ ydl_opts[r].cookiefile \in wrote[r] )
        => /\ Exists(files, ydl_opts[r].cookiefile)
           /\ files[ydl_opts[r].cookiefile] # None
           /\ unlinks[r] = << >>

\* C17 witness: the probe raised and the materialize call is about to start
\* with the cookie file written from YT_COOKIE_STRING still on disk
C17_Witness ==
    \E r \in R :
        /\ pc[r] = "materialize"
        /\ probed[r] = "raised"
        /\ ydl_opts[r].cookiefile = Join(temp_dir, EnvCookieName(uid[r]))
        /\ ydl_opts[r].cookiefile \in wrote[r]
        /\ files[ydl_opts[r].cookiefile] = << "sid=envraw" >>

=============================================================================
